---- MODULE Spec2Model ----
(***************************************************************************)
(* The turn-taking logic of src/App.tsx: the App component's state, its    *)
(* handlers (mount effect, start-conversation, mic toggle, recognizer      *)
(* callbacks, backend continuation, utterance callbacks) and the three     *)
(* browser capabilities they drive (SpeechRecognition, speechSynthesis,    *)
(* the chat backend).                                                      *)
(*                                                                         *)
(* One action is one task of the browser's event loop: a handler from its  *)
(* entry to its return or to its next await, followed by the render and    *)
(* the effects React schedules for the state it changed.  A handler reads  *)
(* the state of the render that created it; an async handler keeps that    *)
(* reading across its await.                                               *)
(*                                                                         *)
(* Text is a sequence of characters, so that String.prototype.trim and     *)
(* the "+= part + ' '" of onresult are computed rather than assumed.       *)
(***************************************************************************)
EXTENDS Naturals, Sequences, FiniteSets, TLC

\* ---------------------------------------------------------------- bounds
\* Recording sessions (successful recognition.start() calls) in one run.
MaxSessions == 1
\* Finalized segments the recognizer delivers in one recording session.
MaxFinals == 1
\* Results carried by one recognizer result event (results[resultIndex..]).
MaxResults == 1
\* handleToggleRecording calls suspended on getUserMedia at one time.
MaxPending == 1
\* Milliseconds Date.now() may advance in one run (SpecClock).
MaxClock == 2

\* ------------------------------------------------------------------ text
Space == " "

\* What the recognizer may return as the transcript of one result.
Segments == { <<"a">>, <<Space>> }

\* What the backend may answer.
Responses == { <<"Nice to hear that!">> }

initialMessageText == <<"Hello! I'm your AI English practice partner. How are you doing today?">>
fallbackMessage == <<"Sorry, I encountered an issue. Could you please try that again?">>

RECURSIVE TrimStart(_)
TrimStart(s) ==
    IF s = <<>> THEN <<>>
    ELSE IF Head(s) = Space THEN TrimStart(Tail(s))
    ELSE s

RECURSIVE TrimEnd(_)
TrimEnd(s) ==
    IF s = <<>> THEN <<>>
    ELSE IF s[Len(s)] = Space THEN TrimEnd(SubSeq(s, 1, Len(s) - 1))
    ELSE s

\* String.prototype.trim
Trim(s) == TrimEnd(TrimStart(s))

\* ----------------------------------------------------------------- state
VARIABLES
    \* environment, fixed for a run
    apiKey,              \* process.env.API_KEY is set
    hasRecognition,      \* window.SpeechRecognition exists (recognition # null)
    ttsSupported,        \* 'speechSynthesis' in window
    \* component state (useState / useRef)
    mounted,             \* the mount effect has run
    chat,                \* "null" or "chat"
    messages,
    isRecording,
    interimTranscript,
    userTranscriptRef,
    isLoadingAI,
    isAISpeaking,
    error,
    isInitialized,
    apiKeyMissing,
    conversationStarted,
    renderedRef,         \* userTranscriptRef.current as read by the last render
    handlers,            \* recognition.onresult/onerror/onend have been assigned
    \* browser and backend
    now,                 \* Date.now()
    recState,            \* the recognizer: "idle", "listening", "stopping", "failed"
    synth,               \* speechSynthesis' utterance queue
    pendingToggles,      \* handleToggleRecording calls awaiting getUserMedia, each with
                         \* the isAISpeaking its handler read
    requests,            \* getAIChatResponse calls awaiting the backend
    \* history (read by no handler)
    spoken,              \* texts passed to speakText, in call order
    sessionFinals,       \* finalized segments since recognition.start(), in order
    accFinals,           \* finalized segments since userTranscriptRef was last reset
    stats                \* counts of what the handlers did

env == <<apiKey, hasRecognition, ttsSupported>>
reactState == <<chat, messages, isRecording, interimTranscript, isLoadingAI,
                isAISpeaking, error, isInitialized, apiKeyMissing, conversationStarted>>
browser == <<now, recState, synth, pendingToggles, requests>>
history == <<spoken, sessionFinals, accFinals, stats>>
vars == <<env, mounted, reactState, userTranscriptRef, renderedRef, handlers,
          browser, history>>

NoError == "null"

Init ==
    /\ apiKey \in BOOLEAN
    /\ hasRecognition \in BOOLEAN
    /\ ttsSupported \in BOOLEAN
    /\ mounted = FALSE
    /\ chat = "null"
    /\ messages = <<>>
    /\ isRecording = FALSE
    /\ interimTranscript = <<>>
    /\ userTranscriptRef = <<>>
    /\ isLoadingAI = FALSE
    /\ isAISpeaking = FALSE
    /\ error = NoError
    /\ isInitialized = FALSE
    /\ apiKeyMissing = FALSE
    /\ conversationStarted = FALSE
    /\ renderedRef = <<>>
    /\ handlers = FALSE
    /\ now = 0
    /\ recState = "idle"
    /\ synth = <<>>
    /\ pendingToggles = <<>>
    /\ requests = <<>>
    /\ spoken = <<>>
    /\ sessionFinals = <<>>
    /\ accFinals = <<>>
    /\ stats = [init |-> "none", sessions |-> 0, sent |-> 0, resolved |-> 0,
                failed |-> 0, failBanners |-> 0, startedFromSpeaking |-> FALSE]

\* A component re-renders when a useState value changed; the render reads the ref.
Render ==
    renderedRef' = IF reactState' # reactState THEN userTranscriptRef' ELSE renderedRef

\* The effect of App.tsx lines 127-169: a render with isRecording true assigns the
\* three recognizer callbacks; a render with isRecording false leaves them as they are.
\* The callbacks are therefore only ever created by a render in which isRecording is
\* true and chat is set, which is what they read as `isRecording` and `chat`.
BindHandlers ==
    handlers' = (handlers \/ (hasRecognition /\ isRecording'))

Message(text, sender, id) == [id |-> id, text |-> text, sender |-> sender]

\* setMessages, a variant of which replaces the log by the new Turn.
AppendTurn_Replaces(prev, m) == <<m>>

\* setMessages(prev => [...prev, m])
AppendTurn(prev, m) == Append(prev, m)

\* --------------------------------------------------------- speech output
\* An utterance in speechSynthesis' queue: "queued" (speak() was called, onstart has
\* not fired), "speaking", or "cancelled" (removed by cancel(), its end or error
\* callback not yet delivered).  Callbacks are delivered in queue order.
Utterance(id) == [id |-> id, st |-> "queued"]

Live(u) == u.st \in {"queued", "speaking"}

LiveIds(q) == { q[i].id : i \in { j \in DOMAIN q : Live(q[j]) } }

\* speechSynthesis.speaking
SynthSpeaking(q) == \E i \in DOMAIN q : q[i].st = "speaking"

\* speechSynthesis.cancel()
Cancel(q) == [i \in DOMAIN q |-> [q[i] EXCEPT !.st = "cancelled"]]

ErrTtsUnsupported == "Text-to-Speech not supported in this browser."
ErrTts == "Text-to-speech error"

\* speakText, its effect on the utterance queue
SpeakSynth(q, id) ==
    IF ~ttsSupported THEN q
    ELSE Append(IF SynthSpeaking(q) THEN Cancel(q) ELSE q, Utterance(id))

\* speakText, its effect on the error banner
SpeakError(e) == IF ~ttsSupported THEN ErrTtsUnsupported ELSE e

\* ------------------------------------------------------------ mount effect
ErrApiKey == "Critical Error: API_KEY is not configured. The application cannot function."
ErrInit == "Initialization failed"

\* geminiService.createChatSession: whether it may return, whether it may throw.  It
\* throws without a credential; with one, ai.chats.create may still throw.
CreateChatSessionOutcomes == IF apiKey THEN {"returns", "throws"} ELSE {"throws"}

\* The mount effect, a variant of which reports itself initialized after a failed
\* session creation.
InitializeChat_InitializedAfterThrow ==
    /\ ~mounted
    /\ mounted' = TRUE
    /\ IF ~apiKey
       THEN /\ error' = ErrApiKey
            /\ apiKeyMissing' = TRUE
            /\ isInitialized' = FALSE
            /\ stats' = [stats EXCEPT !.init = "missing-credential"]
            /\ UNCHANGED <<chat, messages>>
       ELSE /\ apiKeyMissing' = FALSE
            /\ \E outcome \in CreateChatSessionOutcomes :
                  IF outcome = "returns"
                  THEN /\ chat' = "chat"
                       /\ messages' = <<Message(initialMessageText, "ai", now)>>
                       /\ isInitialized' = TRUE
                       /\ stats' = [stats EXCEPT !.init = "ready"]
                       /\ UNCHANGED error
                  ELSE /\ error' = ErrInit
                       /\ isInitialized' = TRUE
                       /\ stats' = [stats EXCEPT !.init = "init-failed"]
                       /\ UNCHANGED <<chat, messages>>
    /\ UNCHANGED <<synth, spoken>>
    /\ UNCHANGED <<env, isRecording, interimTranscript, isLoadingAI, isAISpeaking,
                   conversationStarted, userTranscriptRef, now, recState,
                   pendingToggles, requests, sessionFinals, accFinals>>
    /\ BindHandlers
    /\ Render

\* The mount effect, a variant of which speaks the greeting as soon as it is logged.
InitializeChat_SpeaksGreeting ==
    /\ ~mounted
    /\ mounted' = TRUE
    /\ IF ~apiKey
       THEN /\ error' = ErrApiKey
            /\ apiKeyMissing' = TRUE
            /\ isInitialized' = FALSE
            /\ stats' = [stats EXCEPT !.init = "missing-credential"]
            /\ UNCHANGED <<chat, messages, synth, spoken>>
       ELSE /\ apiKeyMissing' = FALSE
            /\ \E outcome \in CreateChatSessionOutcomes :
                  IF outcome = "returns"
                  THEN /\ chat' = "chat"
                       /\ messages' = <<Message(initialMessageText, "ai", now)>>
                       /\ synth' = SpeakSynth(synth, Len(spoken) + 1)
                       /\ spoken' = Append(spoken, initialMessageText)
                       /\ isInitialized' = TRUE
                       /\ stats' = [stats EXCEPT !.init = "ready"]
                       /\ error' = SpeakError(error)
                  ELSE /\ error' = ErrInit
                       /\ isInitialized' = FALSE
                       /\ stats' = [stats EXCEPT !.init = "init-failed"]
                       /\ UNCHANGED <<chat, messages, synth, spoken>>
    /\ UNCHANGED <<env, isRecording, interimTranscript, isLoadingAI, isAISpeaking,
                   conversationStarted, userTranscriptRef, now, recState,
                   pendingToggles, requests, sessionFinals, accFinals>>
    /\ BindHandlers
    /\ Render

\* The mount effect (useEffect with no dependencies) and its initializeChat.
InitializeChat ==
    /\ ~mounted
    /\ mounted' = TRUE
    /\ IF ~apiKey
       THEN /\ error' = ErrApiKey
            /\ apiKeyMissing' = TRUE
            /\ isInitialized' = FALSE
            /\ stats' = [stats EXCEPT !.init = "missing-credential"]
            /\ UNCHANGED <<chat, messages>>
       ELSE /\ apiKeyMissing' = FALSE
            /\ \E outcome \in CreateChatSessionOutcomes :
                  IF outcome = "returns"
                  THEN /\ chat' = "chat"
                       /\ messages' = <<Message(initialMessageText, "ai", now)>>
                       /\ isInitialized' = TRUE
                       /\ stats' = [stats EXCEPT !.init = "ready"]
                       /\ UNCHANGED error
                  ELSE /\ error' = ErrInit
                       /\ isInitialized' = FALSE
                       /\ stats' = [stats EXCEPT !.init = "init-failed"]
                       /\ UNCHANGED <<chat, messages>>
    /\ UNCHANGED <<synth, spoken>>
    /\ UNCHANGED <<env, isRecording, interimTranscript, isLoadingAI, isAISpeaking,
                   conversationStarted, userTranscriptRef, now, recState,
                   pendingToggles, requests, sessionFinals, accFinals>>
    /\ BindHandlers
    /\ Render

\* ------------------------------------------------------ start conversation
\* The start button is rendered and enabled.
StartEnabled ==
    /\ ~apiKeyMissing
    /\ isInitialized
    /\ ~conversationStarted
    /\ Len(messages) > 0
    /\ ~isAISpeaking

handleStartConversation ==
    /\ StartEnabled
    /\ IF Len(messages) > 0 /\ messages[1].sender = "ai" /\ ~conversationStarted
       THEN /\ synth' = SpeakSynth(synth, Len(spoken) + 1)
            /\ spoken' = Append(spoken, messages[1].text)
       ELSE UNCHANGED <<synth, spoken>>
    /\ conversationStarted' = TRUE
    /\ error' = NoError
    /\ UNCHANGED <<env, mounted, chat, messages, isRecording, interimTranscript,
                   isLoadingAI, isAISpeaking, isInitialized, apiKeyMissing,
                   userTranscriptRef, now, recState, pendingToggles, requests,
                   sessionFinals, accFinals, stats>>
    /\ BindHandlers
    /\ Render

\* ------------------------------------------------------- utterance callbacks
UtteranceStart ==
    /\ Len(synth) > 0
    /\ Head(synth).st = "queued"
    /\ synth' = <<[Head(synth) EXCEPT !.st = "speaking"]>> \o Tail(synth)
    /\ isAISpeaking' = TRUE
    /\ UNCHANGED <<env, mounted, chat, messages, isRecording, interimTranscript,
                   isLoadingAI, error, isInitialized, apiKeyMissing, conversationStarted,
                   userTranscriptRef, now, recState, pendingToggles, requests, history>>
    /\ BindHandlers
    /\ Render

UtteranceEnd ==
    /\ Len(synth) > 0
    /\ Head(synth).st \in {"speaking", "cancelled"}
    /\ synth' = Tail(synth)
    /\ isAISpeaking' = FALSE
    /\ UNCHANGED <<env, mounted, chat, messages, isRecording, interimTranscript,
                   isLoadingAI, error, isInitialized, apiKeyMissing, conversationStarted,
                   userTranscriptRef, now, recState, pendingToggles, requests, history>>
    /\ BindHandlers
    /\ Render

UtteranceError ==
    /\ Len(synth) > 0
    /\ synth' = Tail(synth)
    /\ error' = ErrTts
    /\ isAISpeaking' = FALSE
    /\ UNCHANGED <<env, mounted, chat, messages, isRecording, interimTranscript,
                   isLoadingAI, isInitialized, apiKeyMissing, conversationStarted,
                   userTranscriptRef, now, recState, pendingToggles, requests, history>>
    /\ BindHandlers
    /\ Render

\* ---------------------------------------------------------------- mic toggle
\* The `disabled` attribute of the mic button, as of the last render (the button is
\* not rendered at all when apiKeyMissing).
MicDisabled ==
    \/ ~isInitialized
    \/ isLoadingAI
    \/ apiKeyMissing
    \/ ~conversationStarted
    \/ (isRecording /\ interimTranscript = <<>> /\ renderedRef = <<>>)

\* The early return of handleToggleRecording.
ToggleRefused == apiKeyMissing \/ ~isInitialized \/ ~hasRecognition \/ ~conversationStarted

ErrNoRecognition == "Speech recognition is not available in your browser."
ErrNotStarted == "Please start the conversation first."

\* `if (isAISpeaking) speechSynthesis.cancel()`, a variant of which never cancels.
CancelIfSpeaking_Never(q, speaking) == q

\* `if (isAISpeaking) speechSynthesis.cancel()` of handleToggleRecording.
CancelIfSpeaking(q, speaking) == IF speaking THEN Cancel(q) ELSE q

\* recognition.stop()
RecStop(st) == IF st = "listening" THEN "stopping" ELSE st

\* handleToggleRecording, from the click to its return or to `await getUserMedia`.
handleToggleRecording ==
    /\ ~MicDisabled
    /\ IF ToggleRefused
       THEN /\ error' = IF ~conversationStarted THEN ErrNotStarted
                         ELSE IF ~hasRecognition THEN ErrNoRecognition
                         ELSE error
            /\ UNCHANGED <<synth, isAISpeaking, recState, isRecording, pendingToggles>>
       ELSE /\ synth' = CancelIfSpeaking(synth, isAISpeaking)
            /\ isAISpeaking' = FALSE
            /\ IF isRecording
               THEN /\ recState' = RecStop(recState)
                    /\ isRecording' = FALSE
                    /\ UNCHANGED pendingToggles
               ELSE /\ Len(pendingToggles) < MaxPending
                    /\ pendingToggles' = Append(pendingToggles, [spk |-> isAISpeaking])
                    /\ UNCHANGED <<recState, isRecording>>
            /\ UNCHANGED error
    /\ UNCHANGED <<env, mounted, chat, messages, interimTranscript, isLoadingAI,
                   isInitialized, apiKeyMissing, conversationStarted,
                   userTranscriptRef, now, requests, history>>
    /\ BindHandlers
    /\ Render

Without(q, i) == SubSeq(q, 1, i - 1) \o SubSeq(q, i + 1, Len(q))

ErrCouldNotStart == "Could not start recording. Please check microphone."
ErrMicDenied == "Microphone access denied. Please enable microphone permissions in your browser settings."

\* handleToggleRecording resumed: getUserMedia resolved.  recognition.start() throws
\* InvalidStateError when the recognizer has been started and has not yet ended.
\* At most maxSessions recording sessions start.
GetUserMediaResolved(i, maxSessions) ==
    /\ i \in DOMAIN pendingToggles
    /\ pendingToggles' = Without(pendingToggles, i)
    /\ userTranscriptRef' = <<>>
    /\ interimTranscript' = <<>>
    /\ accFinals' = <<>>
    /\ IF recState = "idle"
       THEN /\ stats.sessions < maxSessions
            /\ recState' = "listening"
            /\ isRecording' = TRUE
            /\ error' = NoError
            /\ sessionFinals' = <<>>
            /\ stats' = [stats EXCEPT !.sessions = @ + 1,
                                      !.startedFromSpeaking = pendingToggles[i].spk]
       ELSE /\ error' = ErrCouldNotStart
            /\ isRecording' = FALSE
            /\ UNCHANGED <<recState, sessionFinals, stats>>
    /\ UNCHANGED <<env, mounted, chat, messages, isLoadingAI, isAISpeaking,
                   isInitialized, apiKeyMissing, conversationStarted,
                   now, synth, requests, spoken>>
    /\ BindHandlers
    /\ Render

\* handleToggleRecording resumed: getUserMedia rejected with an error named `name`.
GetUserMediaRejected(i, name) ==
    /\ i \in DOMAIN pendingToggles
    /\ pendingToggles' = Without(pendingToggles, i)
    /\ error' = IF name \in {"NotAllowedError", "PermissionDeniedError"}
                THEN ErrMicDenied ELSE ErrCouldNotStart
    /\ isRecording' = FALSE
    /\ UNCHANGED <<env, mounted, chat, messages, interimTranscript, isLoadingAI,
                   isAISpeaking, isInitialized, apiKeyMissing, conversationStarted,
                   userTranscriptRef, now, recState, synth, requests, history>>
    /\ BindHandlers
    /\ Render

MediaErrors == {"NotAllowedError", "NotFoundError"}

\* ------------------------------------------------------ recognizer callbacks
\* One result of a result event: event.results[i][0].transcript and .isFinal.
Results == [transcript : Segments, isFinal : BOOLEAN]

\* event.results[event.resultIndex ..] of one result event.
ResultEvents == UNION { [1..n -> Results] : n \in 1..MaxResults }

\* The loop of onresult, a variant of which adds every result to currentFinal.
RECURSIVE CurrentFinal_InterimLeaks(_, _)
CurrentFinal_InterimLeaks(cur, ev) ==
    IF ev = <<>> THEN cur
    ELSE CurrentFinal_InterimLeaks(cur \o Head(ev).transcript \o <<Space>>, Tail(ev))

\* The loop of onresult, its currentFinal.
RECURSIVE CurrentFinal(_, _)
CurrentFinal(cur, ev) ==
    IF ev = <<>> THEN cur
    ELSE CurrentFinal(IF Head(ev).isFinal
                      THEN cur \o Head(ev).transcript \o <<Space>>
                      ELSE cur,
                      Tail(ev))

\* The loop of onresult, its currentInterim.
RECURSIVE CurrentInterim(_, _)
CurrentInterim(cur, ev) ==
    IF ev = <<>> THEN cur
    ELSE CurrentInterim(IF Head(ev).isFinal
                        THEN cur
                        ELSE cur \o Head(ev).transcript,
                        Tail(ev))

\* The finalized segments an event carries, in order.
RECURSIVE FinalsOf(_)
FinalsOf(ev) ==
    IF ev = <<>> THEN <<>>
    ELSE (IF Head(ev).isFinal THEN <<Head(ev).transcript>> ELSE <<>>) \o FinalsOf(Tail(ev))

RecActive == recState \in {"listening", "stopping"}

\* A result event.  At most maxFinals segments are finalized in one session.
RecognitionResult(ev, maxFinals) ==
    /\ RecActive
    /\ handlers
    /\ Len(sessionFinals \o FinalsOf(ev)) <= maxFinals
    /\ userTranscriptRef' = CurrentFinal(userTranscriptRef, ev)
    /\ interimTranscript' = CurrentInterim(<<>>, ev)
    /\ sessionFinals' = sessionFinals \o FinalsOf(ev)
    /\ accFinals' = accFinals \o FinalsOf(ev)
    /\ UNCHANGED <<env, mounted, chat, messages, isRecording, isLoadingAI, isAISpeaking,
                   error, isInitialized, apiKeyMissing, conversationStarted,
                   browser, spoken, stats>>
    /\ BindHandlers
    /\ Render

ErrorCodes == {"no-speech", "network"}

RecognitionErrorText(code) ==
    IF code = "no-speech" THEN "I didn't hear anything. Please try speaking again."
    ELSE IF code = "audio-capture" THEN "Audio capture error. Please check your microphone."
    ELSE IF code = "not-allowed"
    THEN "Microphone access was denied. Please enable microphone permissions in your browser settings."
    ELSE "Speech recognition error"

\* The recognizer reports an error; its end event follows.
RecognitionError(code) ==
    /\ RecActive
    /\ handlers
    /\ recState' = "failed"
    /\ error' = RecognitionErrorText(code)
    /\ isRecording' = FALSE
    /\ userTranscriptRef' = <<>>
    /\ interimTranscript' = <<>>
    /\ accFinals' = <<>>
    /\ UNCHANGED <<env, mounted, chat, messages, isLoadingAI, isAISpeaking,
                   isInitialized, apiKeyMissing, conversationStarted,
                   now, synth, pendingToggles, requests, spoken, sessionFinals, stats>>
    /\ BindHandlers
    /\ Render

\* processAndSendTranscript sends: the transcript is non-empty after trim and chat is set.
Sends(transcript) == Trim(transcript) # <<>> /\ chat # "null"

\* The recognizer's end event: onend, and processAndSendTranscript up to its return
\* or to `await getAIChatResponse`.  onend's `isRecording` is the one of the render
\* that assigned it, which is true (see BindHandlers).
RecognitionEnd ==
    /\ recState \in {"listening", "stopping", "failed"}
    /\ handlers
    /\ recState' = "idle"
    /\ isRecording' = FALSE
    /\ sessionFinals' = <<>>
    /\ IF Sends(userTranscriptRef)
       THEN /\ messages' = AppendTurn(messages, Message(Trim(userTranscriptRef), "user", now))
            /\ isLoadingAI' = TRUE
            /\ requests' = Append(requests, Trim(userTranscriptRef))
            /\ stats' = [stats EXCEPT !.sent = @ + 1, !.startedFromSpeaking = FALSE]
            /\ UNCHANGED <<userTranscriptRef, interimTranscript, accFinals>>
       ELSE /\ userTranscriptRef' = <<>>
            /\ interimTranscript' = <<>>
            /\ accFinals' = <<>>
            /\ stats' = [stats EXCEPT !.startedFromSpeaking = FALSE]
            /\ UNCHANGED <<messages, isLoadingAI, requests>>
    /\ UNCHANGED <<env, mounted, chat, isAISpeaking, error, isInitialized, apiKeyMissing,
                   conversationStarted, now, synth, pendingToggles, spoken>>
    /\ BindHandlers
    /\ Render

\* ------------------------------------------------------ backend continuation
\* The resolved continuation, a variant of which never clears isLoadingAI.
BackendResolved_StaysLoading(i, text) ==
    /\ i \in DOMAIN requests
    /\ requests' = Without(requests, i)
    /\ messages' = AppendTurn(messages, Message(text, "ai", now + 1))
    /\ synth' = SpeakSynth(synth, Len(spoken) + 1)
    /\ spoken' = Append(spoken, text)
    /\ error' = SpeakError(error)
    /\ isLoadingAI' = isLoadingAI
    /\ userTranscriptRef' = <<>>
    /\ interimTranscript' = <<>>
    /\ accFinals' = <<>>
    /\ stats' = [stats EXCEPT !.resolved = @ + 1]
    /\ UNCHANGED <<env, mounted, chat, isRecording, isAISpeaking, isInitialized,
                   apiKeyMissing, conversationStarted, now, recState, pendingToggles,
                   sessionFinals>>
    /\ BindHandlers
    /\ Render

\* processAndSendTranscript resumed: getAIChatResponse resolved with `text`.
BackendResolved(i, text) ==
    /\ i \in DOMAIN requests
    /\ requests' = Without(requests, i)
    /\ messages' = AppendTurn(messages, Message(text, "ai", now + 1))
    /\ synth' = SpeakSynth(synth, Len(spoken) + 1)
    /\ spoken' = Append(spoken, text)
    /\ error' = SpeakError(error)
    /\ isLoadingAI' = FALSE
    /\ userTranscriptRef' = <<>>
    /\ interimTranscript' = <<>>
    /\ accFinals' = <<>>
    /\ stats' = [stats EXCEPT !.resolved = @ + 1]
    /\ UNCHANGED <<env, mounted, chat, isRecording, isAISpeaking, isInitialized,
                   apiKeyMissing, conversationStarted, now, recState, pendingToggles,
                   sessionFinals>>
    /\ BindHandlers
    /\ Render

\* What getAIChatResponse throws: an Error wrapping the cause's message, or the
\* fixed message for a cause that is no Error.
Causes == {"Error", "other"}

\* The banner of the catch block, a variant of which shows the apology instead.
ErrAI_Apology(cause) == "Sorry, I encountered an issue. Could you please try that again?"

\* `Error getting AI response: ${e.message}`, e being what getAIChatResponse throws:
\* for an Error (a network failure: fetch's "Failed to fetch") its message after
\* "Failed to get AI response: ", for anything else the fixed message.
ErrAI(cause) ==
    IF cause = "Error"
    THEN "Error getting AI response: Failed to get AI response: Failed to fetch"
    ELSE "Error getting AI response: Failed to get AI response due to an unknown error."

\* The catch block, a variant of which logs the fallback Turn without speaking it.
BackendRejected_Silent(i, cause) ==
    /\ i \in DOMAIN requests
    /\ requests' = Without(requests, i)
    /\ error' = ErrAI(cause)
    /\ messages' = AppendTurn(messages, Message(fallbackMessage, "ai", now + 1))
    /\ isLoadingAI' = FALSE
    /\ userTranscriptRef' = <<>>
    /\ interimTranscript' = <<>>
    /\ accFinals' = <<>>
    /\ stats' = [stats EXCEPT !.failed = @ + 1, !.failBanners = @ + 1]
    /\ UNCHANGED <<env, mounted, chat, isRecording, isAISpeaking, isInitialized,
                   apiKeyMissing, conversationStarted, now, recState, pendingToggles,
                   sessionFinals, synth, spoken>>
    /\ BindHandlers
    /\ Render

\* processAndSendTranscript resumed: getAIChatResponse rejected.
BackendRejected(i, cause) ==
    /\ i \in DOMAIN requests
    /\ requests' = Without(requests, i)
    /\ error' = SpeakError(ErrAI(cause))
    /\ messages' = AppendTurn(messages, Message(fallbackMessage, "ai", now + 1))
    /\ synth' = SpeakSynth(synth, Len(spoken) + 1)
    /\ spoken' = Append(spoken, fallbackMessage)
    /\ isLoadingAI' = FALSE
    /\ userTranscriptRef' = <<>>
    /\ interimTranscript' = <<>>
    /\ accFinals' = <<>>
    /\ stats' = [stats EXCEPT !.failed = @ + 1, !.failBanners = @ + 1]
    /\ UNCHANGED <<env, mounted, chat, isRecording, isAISpeaking, isInitialized,
                   apiKeyMissing, conversationStarted, now, recState, pendingToggles,
                   sessionFinals>>
    /\ BindHandlers
    /\ Render

\* ------------------------------------------------------------ specification
\* One task of the event loop, in a run of at most maxSessions recording sessions of
\* at most maxFinals finalized segments each.
Step(maxSessions, maxFinals) ==
    \/ InitializeChat
    \/ handleStartConversation
    \/ handleToggleRecording
    \/ \E i \in DOMAIN pendingToggles : GetUserMediaResolved(i, maxSessions)
    \/ \E i \in DOMAIN pendingToggles, name \in MediaErrors : GetUserMediaRejected(i, name)
    \/ \E ev \in ResultEvents : RecognitionResult(ev, maxFinals)
    \/ \E code \in ErrorCodes : RecognitionError(code)
    \/ RecognitionEnd
    \/ \E i \in DOMAIN requests, text \in Responses : BackendResolved(i, text)
    \/ \E i \in DOMAIN requests, cause \in Causes : BackendRejected(i, cause)
    \/ UtteranceStart
    \/ UtteranceEnd
    \/ UtteranceError

Next == Step(MaxSessions, MaxFinals)

Spec == Init /\ [][Next]_vars

\* The same program in runs of one more recording session and one more finalized
\* segment per session: the runs in which a second session meets the first one's
\* request, and in which a session accumulates two segments.
NextWide == Step(MaxSessions + 1, MaxFinals + 1)

SpecWide == Init /\ [][NextWide]_vars

\* The promise of getAIChatResponse settles: some pending request resolves or rejects.
BackendSettles ==
    \E i \in DOMAIN requests :
        \/ \E text \in Responses : BackendResolved(i, text)
        \/ \E cause \in Causes : BackendRejected(i, cause)

\* The program with a backend whose every call eventually resolves or rejects, and
\* with a recognizer that, not being continuous (recognition.continuous = false),
\* eventually ends each session it started.
SpecWideLive == SpecWide /\ WF_vars(BackendSettles) /\ WF_vars(RecognitionEnd)

\* Date.now() advances.
Tick ==
    /\ now < MaxClock
    /\ now' = now + 1
    /\ UNCHANGED <<env, mounted, reactState, userTranscriptRef, recState, synth,
                   pendingToggles, requests, history>>
    /\ BindHandlers
    /\ Render

NextClock == Next \/ Tick

\* The same program with a clock that advances between its steps.
SpecClock == Init /\ [][NextClock]_vars

\* ------------------------------------------------------------------ claims
Last(q) == q[Len(q)]

\* Plain concatenation of segments.
RECURSIVE Flatten(_)
Flatten(segs) == IF segs = <<>> THEN <<>> ELSE Head(segs) \o Flatten(Tail(segs))

\* Concatenation of segments, each followed by one space.
RECURSIVE FlattenSpaced(_)
FlattenSpaced(segs) ==
    IF segs = <<>> THEN <<>> ELSE Head(segs) \o <<Space>> \o FlattenSpaced(Tail(segs))

Count(q, Test(_)) == Cardinality({ i \in DOMAIN q : Test(q[i]) })

IsPrefix(p, q) == Len(p) <= Len(q) /\ SubSeq(q, 1, Len(p)) = p

\* A step that sends a backend request.
SendStep == Len(requests') > Len(requests)

\* C1: at most one backend request is outstanding in every reachable state.
C1_AtMostOneRequest == Len(requests) <= 1

\* C2: Recording and Speaking are mutually exclusive: isRecording and isAISpeaking
\* are never both true.
C2_RecordingExcludesSpeaking == ~(isRecording /\ isAISpeaking)

IsFallbackTurn(m) == m.sender = "ai" /\ m.text = fallbackMessage
IsResponseTurn(m) == m.sender = "ai" /\ m.text \in Responses
IsFallbackText(t) == t = fallbackMessage

EmptyEndStep ==
    /\ recState # "idle"
    /\ recState' = "idle"
    /\ Trim(userTranscriptRef) = <<>>

\* C5: when a recording ends with a final buffer that is empty after trim, no request
\* is sent, no Turn is appended, and the machine is idle (not recording, not loading)
\* with both parts of the accumulator empty.
C5_EmptyTranscriptGoesIdle ==
    [][EmptyEndStep =>
          /\ requests' = requests
          /\ messages' = messages
          /\ ~isRecording'
          /\ ~isLoadingAI'
          /\ userTranscriptRef' = <<>>
          /\ interimTranscript' = <<>>]_vars

\* C6: no recording is in progress while a backend request is pending: isRecording
\* and isLoadingAI are never both true.
C6_NoRecordingWhileLoading == ~(isRecording /\ isLoadingAI)

\* A mic toggle-on made while isAISpeaking: the handler suspends on getUserMedia.
ToggleOnWhileSpeakingStep == isAISpeaking /\ Len(pendingToggles') > Len(pendingToggles)

\* recognition.start() takes effect.
CaptureStartStep == recState # "listening" /\ recState' = "listening"

\* C7: a mic toggle-on made while Speaking cancels every utterance and clears the
\* speaking flag in the step that suspends on getUserMedia, without starting the
\* recognizer; the recognizer starts only in a later step, which resumes a suspended
\* toggle.
C7_CancelBeforeCapture ==
    [][/\ ToggleOnWhileSpeakingStep =>
            /\ LiveIds(synth') = {}
            /\ ~SynthSpeaking(synth')
            /\ ~isAISpeaking'
            /\ recState' = recState
       /\ CaptureStartStep => Len(pendingToggles') < Len(pendingToggles)]_vars

\* A recording is running that was started by a toggle made while Speaking.
C7_Witness == recState = "listening" /\ isRecording /\ stats.startedFromSpeaking

\* C8: after a missing credential or a failed session creation there is no chat
\* session and nothing ever records, speaks, sends or logs.
C8_FatalIsTerminal ==
    /\ (mounted /\ ~apiKey) => (stats.init = "missing-credential" /\ apiKeyMissing)
    /\ stats.init \in {"missing-credential", "init-failed"} =>
          /\ chat = "null"
          /\ ~isInitialized
          /\ ~isRecording /\ ~isLoadingAI /\ ~isAISpeaking
          /\ ~conversationStarted
          /\ messages = <<>>
          /\ requests = <<>> /\ stats.sent = 0
          /\ spoken = <<>> /\ synth = <<>>
          /\ recState = "idle" /\ pendingToggles = <<>> /\ stats.sessions = 0
          /\ error \in {ErrApiKey, ErrInit}

\* Session creation has failed with the credential present.
C8_Witness == stats.init = "init-failed" /\ apiKey /\ error = ErrInit

\* C9: before the start gesture nothing is spoken, nothing is captured and nothing is
\* sent; once initialized the log holds the greeting alone.
C9_NothingBeforeStart ==
    ~conversationStarted =>
        /\ spoken = <<>> /\ synth = <<>> /\ ~isAISpeaking
        /\ recState = "idle" /\ ~isRecording /\ pendingToggles = <<>>
        /\ stats.sessions = 0 /\ ~handlers
        /\ requests = <<>> /\ stats.sent = 0 /\ ~isLoadingAI
        /\ isInitialized => messages = <<Message(initialMessageText, "ai", 0)>>

\* Initialized, the greeting logged, the start gesture not yet made.
C9_Witness == isInitialized /\ ~conversationStarted /\ Len(messages) = 1

\* C10: the log is append-only: every step leaves the Turns it holds unchanged and in
\* place, adding new ones only at the end.
C10_LogAppendOnly == [][IsPrefix(messages, messages')]_vars

\* The log holds the greeting and a full exchange.
C10_Witness == Len(messages) >= 3

\* The recognizer's error event is delivered.
ErrorStep == recState # "failed" /\ recState' = "failed"

\* The recognizer's end event is delivered after its error event.
EndAfterErrorStep == recState = "failed" /\ recState' = "idle"

\* C11 (without the claim that the machine is idle): the recognizer's error event and
\* the end event that follows it send no request and log no Turn; the error event sets
\* the banner, empties the accumulator and leaves isRecording false.
C11_ErrorDiscards ==
    [][/\ ErrorStep =>
            /\ error' # NoError
            /\ ~isRecording'
            /\ userTranscriptRef' = <<>> /\ interimTranscript' = <<>>
            /\ requests' = requests /\ messages' = messages
       /\ EndAfterErrorStep =>
            /\ ~isRecording'
            /\ requests' = requests /\ messages' = messages]_vars

\* C11: a recognizer error discards the session's transcript (neither the error event
\* nor the end event after it sends a request or logs a Turn), sets the error banner,
\* and returns the machine to idle: not recording, not loading, the mic toggle enabled.
C11_ErrorReturnsToIdle ==
    [][/\ ErrorStep =>
            /\ error' # NoError
            /\ ~isRecording'
            /\ userTranscriptRef' = <<>> /\ interimTranscript' = <<>>
            /\ requests' = requests /\ messages' = messages
            /\ ~isLoadingAI' /\ ~MicDisabled'
       /\ EndAfterErrorStep =>
            /\ ~isRecording'
            /\ requests' = requests /\ messages' = messages]_vars

IsAgentTurn(m) == m.sender = "ai"

\* The most Turns a log can hold: the greeting and two per recording session.
MaxTurns == 2 * (MaxSessions + 1) + 1

\* C12: whenever a backend request is pending, eventually one more agent Turn is
\* logged, every agent Turn has been handed to speakText, isLoadingAI is false and the
\* mic toggle is enabled.
C12_EventuallyAnsweredAndEnabled ==
    \A k \in 0..MaxTurns :
        (Len(requests) > 0 /\ Count(messages, IsAgentTurn) = k)
            ~> (/\ Count(messages, IsAgentTurn) > k
                /\ Len(spoken) = Count(messages, IsAgentTurn)
                /\ ~isLoadingAI
                /\ ~MicDisabled)

\* Two requests have been sent and answered, and the mic toggle is enabled again.
C12_Witness ==
    /\ stats.sent = 2 /\ requests = <<>>
    /\ Len(messages) = 5
    /\ ~isLoadingAI /\ ~MicDisabled

\* The words of the texts a failed request can show.
WordsOf(text) ==
    CASE text = "Error getting AI response: Failed to get AI response: Failed to fetch" ->
            <<"Error", "getting", "AI", "response", "Failed", "to", "get", "AI",
              "response", "Failed", "to", "fetch">>
      [] text = "Error getting AI response: Failed to get AI response due to an unknown error." ->
            <<"Error", "getting", "AI", "response", "Failed", "to", "get", "AI",
              "response", "due", "to", "an", "unknown", "error">>
      [] text = "Text-to-Speech not supported in this browser." ->
            <<"Text", "to", "Speech", "not", "supported", "in", "this", "browser">>
      [] text = "Sorry, I encountered an issue. Could you please try that again?" ->
            <<"Sorry", "I", "encountered", "an", "issue", "Could", "you", "please",
              "try", "that", "again">>

ContainsWord(text, word) == \E i \in DOMAIN WordsOf(text) : WordsOf(text)[i] = word

\* The catch block of processAndSendTranscript runs.
RejectStep == stats'.failed = stats.failed + 1

C14_AccumulatorEmptyOutsideRecording ==
    recState = "idle" => (userTranscriptRef = <<>> /\ interimTranscript = <<>>)

\* processAndSendTranscript resumes after its await.
BackendStep == Len(requests') < Len(requests)

\* C14 (its last part): the reset that follows a session's request never erases text
\* accumulated by a later session.
C14_ResetSparesLaterSession ==
    [][(BackendStep /\ RecActive) =>
          /\ userTranscriptRef' = userTranscriptRef
          /\ interimTranscript' = interimTranscript]_vars

\* A suspended mic toggle resumes and fails: getUserMedia rejected, or
\* recognition.start() threw.
ToggleFailStep ==
    /\ Len(pendingToggles') < Len(pendingToggles)
    /\ stats'.sessions = stats.sessions

\* C15 (without the claim about the mic toggle when a request is pending): a failed
\* mic toggle sets the error banner, leaves isRecording false, sends no request and
\* logs no Turn, and leaves the mic toggle enabled unless a request is pending.
C15_FailedToggleSendsNothing ==
    [][ToggleFailStep =>
          /\ error' \in {ErrMicDenied, ErrCouldNotStart}
          /\ ~isRecording'
          /\ requests' = requests /\ messages' = messages
          /\ isLoadingAI' = isLoadingAI
          /\ ~isLoadingAI' => ~MicDisabled']_vars

\* C15: after a microphone permission denial or a failure to start the recognizer the
\* error banner is set, isRecording is false, no request is sent, no Turn is logged,
\* and the mic toggle is enabled.
C15_FailedToggleLeavesRetryable ==
    [][ToggleFailStep =>
          /\ error' \in {ErrMicDenied, ErrCouldNotStart}
          /\ ~isRecording'
          /\ requests' = requests /\ messages' = messages
          /\ ~MicDisabled']_vars

\* C16: no two Turns in the log share an id.
C16_UniqueIds ==
    \A i, j \in DOMAIN messages : messages[i].id = messages[j].id => i = j

\* The recognizer's end event is delivered: onend runs processAndSendTranscript.
EndStep == recState # "idle" /\ recState' = "idle"

\* C17 (its first part): a request is sent only by the processing that a session's
\* end event starts, one at most per end event, so requests never outnumber sessions.
C17_AtMostOneRequestPerSession ==
    [][/\ SendStep => (EndStep /\ Len(requests') = Len(requests) + 1)
       /\ stats'.sent <= stats'.sessions]_vars

\* C17: each recording session is processed once, by its end event, which sends at
\* most one request; and a session that ends without error having finalized a
\* non-empty transcript has that processing send a request.
C17_TranscriptNeverLost ==
    [][/\ SendStep => (EndStep /\ Len(requests') = Len(requests) + 1)
       /\ stats'.sent <= stats'.sessions
       /\ (EndStep /\ recState # "failed" /\ Trim(FlattenSpaced(sessionFinals)) # <<>>)
             => SendStep]_vars

\* Greeting, then user and agent Turns in strict alternation.
Alternates(log) ==
    \A i \in DOMAIN log :
        log[i].sender = (IF i % 2 = 1 THEN "ai" ELSE "user")

\* C18 (its first part): the step that sends a request appends one user Turn, which
\* carries exactly the text sent.
C18_UserTurnCarriesSentText ==
    [][SendStep =>
          /\ Len(messages') = Len(messages) + 1
          /\ Last(messages').sender = "user"
          /\ Last(messages').text = Last(requests')]_vars

\* C18: the log is the greeting followed by strictly alternating user and agent
\* Turns; the step that sends a request appends the user Turn carrying the text sent;
\* and the step that settles a request appends an agent Turn right after that
\* request's user Turn.
C18_StrictAlternation ==
    [][/\ Alternates(messages')
       /\ SendStep =>
             /\ Len(messages') = Len(messages) + 1
             /\ Last(messages').sender = "user"
             /\ Last(messages').text = Last(requests')
       /\ BackendStep =>
             /\ Len(messages') = Len(messages) + 1
             /\ IsAgentTurn(Last(messages'))
             /\ Last(messages).sender = "user"
             /\ \E i \in DOMAIN requests :
                   requests' = Without(requests, i) /\ Last(messages).text = requests[i]]_vars

\* Recording with nothing transcribed: the final buffer and the interim text are empty.
RecordingEmpty == isRecording /\ userTranscriptRef = <<>> /\ interimTranscript = <<>>

\* C19 (its first part): while Recording with nothing transcribed the mic toggle is
\* disabled.
C19_DisabledWhileEmpty == RecordingEmpty => MicDisabled

\* C19: while Recording with nothing transcribed the mic toggle is disabled, and such
\* a recording stops being Recording only in the step of the recognizer's end or error
\* event; once either buffer is non-empty (and no request is pending) the toggle is
\* enabled.
C19_EnabledOnceTranscribed ==
    [][/\ RecordingEmpty' => MicDisabled'
       /\ (RecordingEmpty /\ ~isRecording') => (EndStep \/ ErrorStep)
       /\ (isRecording' /\ ~isLoadingAI' /\ ~RecordingEmpty') => ~MicDisabled']_vars

====
